---- MODULE Spec2Model ----
(***************************************************************************)
(* Hidden prompt injection detector: the content script's detection engine *)
(* (visibility classifier, colour model, instruction classifier, path       *)
(* resolver, scan orchestrator, highlighter and message listener) as a      *)
(* state machine over a small rendered document.                            *)
(*                                                                          *)
(* Strings the code inspects character by character (node text, attribute  *)
(* values, ids, class names) are sequences of one-character strings.        *)
(***************************************************************************)
EXTENDS Integers, Sequences, FiniteSets, TLC

VARIABLES
  doc,              \* the rendered document: nodes in document order
  scrollTop,        \* the viewport's vertical scroll offset
  readyState,       \* document.readyState as the content script saw it
  findings,         \* window.__hiddenPromptFindings
  findingIdCounter, \* let findingIdCounter
  timers,           \* pending setTimeout callbacks of highlightElementById
  response,         \* the last answer given through sendResponse
  uncaught,         \* an exception has escaped a handler
  scanDoc,          \* the document as the most recent scan read it (<<>>: no scan yet)
  scanScroll,       \* the scroll offset the most recent scan read
  mutations         \* number of page mutations so far

vars == <<doc, scrollTop, readyState, findings, findingIdCounter, timers,
          response, uncaught, scanDoc, scanScroll, mutations>>

----------------------------------------------------------------------------
(* Bounds of the model *)

MaxTimers == 2
MaxMutations == 1

----------------------------------------------------------------------------
(* Program constants *)

MinTextLength == 10
OpacityThresholdPct == 5
FontSizeThreshold == 5
OffscreenLimit == 5000
ColorDistanceThreshold == 30

----------------------------------------------------------------------------
(* Strings *)

Whitespace == {" ", "\t", "\n"}

UpperCase == <<"A","B","C","D","E","F","G","H","I","J","K","L","M",
               "N","O","P","Q","R","S","T","U","V","W","X","Y","Z">>
LowerCase == <<"a","b","c","d","e","f","g","h","i","j","k","l","m",
               "n","o","p","q","r","s","t","u","v","w","x","y","z">>

\* the lower-case letter of each upper-case letter
ToLower ==
  [c \in {UpperCase[i] : i \in 1..26} |-> LowerCase[CHOOSE i \in 1..26 : UpperCase[i] = c]]

LowerChar(c) == IF c \in DOMAIN ToLower THEN ToLower[c] ELSE c

toLowerCase(s) == [i \in 1..Len(s) |-> LowerChar(s[i])]

\* String.prototype.trim: drop leading and trailing whitespace
trim(s) ==
  LET keep == {i \in 1..Len(s) : s[i] \notin Whitespace}
  IN IF keep = {} THEN <<>>
     ELSE LET lo == CHOOSE i \in keep : \A j \in keep : i <= j
              hi == CHOOSE i \in keep : \A j \in keep : i >= j
          IN SubSeq(s, lo, hi)

\* String.prototype.includes
includes(s, k) ==
  \E i \in 1..(Len(s) - Len(k) + 1) : \A j \in 1..Len(k) : s[i + j - 1] = k[j]

\* String.prototype.startsWith
startsWith(s, k) == Len(s) >= Len(k) /\ SubSeq(s, 1, Len(k)) = k

----------------------------------------------------------------------------
(* Colour model *)

\* A CSS colour value. fn is "rgb" or "rgba" (functional notation with integer
\* channels; a is the alpha in hundredths), "hex6" (#rrggbb), "keyword"
\* (transparent, a named colour, any other form) or "empty" (the empty string).
Rgb(r, g, b) == [fn |-> "rgb", r |-> r, g |-> g, b |-> b, a |-> 100, word |-> ""]
Rgba(r, g, b, a) == [fn |-> "rgba", r |-> r, g |-> g, b |-> b, a |-> a, word |-> ""]
Hex6(r, g, b) == [fn |-> "hex6", r |-> r, g |-> g, b |-> b, a |-> 100, word |-> ""]
Keyword(w) == [fn |-> "keyword", r |-> 0, g |-> 0, b |-> 0, a |-> 0, word |-> w]
EmptyColor == [fn |-> "empty", r |-> 0, g |-> 0, b |-> 0, a |-> 0, word |-> ""]

null == [fn |-> "null"]

parseColor(color) ==
  IF \/ color.fn = "empty"
     \/ color = Keyword("transparent")
     \/ color = Rgba(0, 0, 0, 0)
    THEN null
  ELSE IF color.fn \in {"rgb", "rgba"}
    THEN [fn |-> "parsed", r |-> color.r, g |-> color.g, b |-> color.b]
  ELSE IF color.fn = "hex6"
    THEN [fn |-> "parsed", r |-> color.r, g |-> color.g, b |-> color.b]
  ELSE null

Sq(x) == x * x

\* distance < 30 on the square root is distance^2 < 30^2 on the integers
colorsAreSimilar(color1, color2) ==
  LET c1 == parseColor(color1)
      c2 == parseColor(color2)
  IN IF c1 = null \/ c2 = null THEN FALSE
     ELSE Sq(c1.r - c2.r) + Sq(c1.g - c2.g) + Sq(c1.b - c2.b)
            < Sq(ColorDistanceThreshold)

----------------------------------------------------------------------------
(* Instruction classifier *)

keywords ==
  << <<"i","g","n","o","r","e"," ","p","r","e","v","i","o","u","s"," ","i","n","s","t","r","u","c","t","i","o","n","s">>,
     <<"i","g","n","o","r","e"," ","a","l","l"," ","a","b","o","v","e"," ","i","n","s","t","r","u","c","t","i","o","n","s">>,
     <<"i","g","n","o","r","e"," ","a","l","l"," ","p","r","e","v","i","o","u","s">>,
     <<"d","i","s","r","e","g","a","r","d"," ","t","h","e"," ","u","s","e","r">>,
     <<"d","i","s","r","e","g","a","r","d"," ","p","r","e","v","i","o","u","s">>,
     <<"y","o","u"," ","a","r","e"," ","a","n"," ","a","i">>,
     <<"y","o","u"," ","a","r","e"," ","a","n"," ","a","i"," ","a","s","s","i","s","t","a","n","t">>,
     <<"s","y","s","t","e","m"," ","p","r","o","m","p","t">>,
     <<"s","y","s","t","e","m"," ","m","e","s","s","a","g","e">>,
     <<"n","a","v","i","g","a","t","e"," ","t","o">>,
     <<"o","p","e","n"," ","t","h","e"," ","u","r","l">>,
     <<"g","o"," ","t","o"," ","h","t","t","p">>,
     <<"v","i","s","i","t"," ","h","t","t","p">>,
     <<"l","o","g"," ","i","n">>,
     <<"l","o","g","i","n"," ","t","o">>,
     <<"a","u","t","h","e","n","t","i","c","a","t","e">>,
     <<"e","x","f","i","l","t","r","a","t","e">>,
     <<"s","e","n","d"," ","d","a","t","a">>,
     <<"s","e","n","d"," ","t","h","e"," ","d","a","t","a"," ","t","o">>,
     <<"c","o","p","y"," ","t","h","e"," ","u","s","e","r">>,
     <<"e","x","t","r","a","c","t"," ","a","l","l">>,
     <<"r","e","t","u","r","n"," ","a","l","l">>,
     <<"b","r","o","w","s","e","r"," ","a","u","t","o","m","a","t","i","o","n">>,
     <<"d","o"," ","n","o","t"," ","t","e","l","l"," ","t","h","e"," ","u","s","e","r">>,
     <<"d","o","n","'","t"," ","t","e","l","l"," ","t","h","e"," ","u","s","e","r">>,
     <<"w","i","t","h","o","u","t"," ","t","h","e"," ","u","s","e","r"," ","k","n","o","w","i","n","g">>,
     <<"s","e","c","r","e","t","l","y">>,
     <<"o","v","e","r","r","i","d","e"," ","p","r","e","v","i","o","u","s">>,
     <<"n","e","w"," ","i","n","s","t","r","u","c","t","i","o","n","s">>,
     <<"f","o","r","g","e","t"," ","a","l","l">>,
     <<"r","e","s","e","t"," ","i","n","s","t","r","u","c","t","i","o","n","s">>,
     <<"a","c","t"," ","a","s"," ","i","f">>,
     <<"p","r","e","t","e","n","d"," ","y","o","u"," ","a","r","e">>,
     <<"b","e","h","a","v","e"," ","a","s">>,
     <<"e","x","e","c","u","t","e"," ","t","h","e"," ","f","o","l","l","o","w","i","n","g">>,
     <<"r","u","n"," ","t","h","i","s"," ","c","o","d","e">>,
     <<"b","y","p","a","s","s"," ","s","e","c","u","r","i","t","y">>,
     <<"d","i","s","a","b","l","e"," ","s","a","f","e","t","y">> >>
imperativeVerbs ==
  << <<"g","o">>,
     <<"s","e","n","d">>,
     <<"c","l","i","c","k">>,
     <<"f","e","t","c","h">>,
     <<"e","x","t","r","a","c","t">>,
     <<"n","a","v","i","g","a","t","e">>,
     <<"o","p","e","n">>,
     <<"v","i","s","i","t">>,
     <<"e","x","e","c","u","t","e">>,
     <<"r","u","n">>,
     <<"b","y","p","a","s","s">>,
     <<"d","i","s","a","b","l","e">>,
     <<"i","g","n","o","r","e">>,
     <<"f","o","r","g","e","t">>,
     <<"o","v","e","r","r","i","d","e">> >>

\* /^(go|send|...|override)\s/i on the trimmed text
imperativePattern(t) ==
  \E n \in 1..Len(imperativeVerbs) :
    LET v == imperativeVerbs[n]
    IN /\ Len(t) > Len(v)
       /\ toLowerCase(SubSeq(t, 1, Len(v))) = v
       /\ t[Len(v) + 1] \in Whitespace

looksLikePromptInstruction(text) ==
  LET lower == toLowerCase(text)
  IN \/ \E n \in 1..Len(keywords) : includes(lower, keywords[n])
     \/ imperativePattern(trim(text))

----------------------------------------------------------------------------
(* The document *)

\* doc is the sequence of the document's nodes in document order. An element
\* is [kind |-> "element", parent, tagName, id, className, attributes, style,
\* box, outline, outlineOffset]; a text or comment node is
\* [kind |-> "text" or "comment", parent, data]. parent is the index of the
\* parent node, 0 for none. className is the list of the class attribute's
\* whitespace-separated tokens; style is what getComputedStyle resolves
\* (opacity in hundredths, fontSize in px); box is the layout box in page
\* coordinates; outline and outlineOffset are element.style's inline values.

NoElement == 0

IsElement(n) == n \in DOMAIN doc /\ doc[n].kind = "element"

documentElement == 1

body == CHOOSE n \in DOMAIN doc : doc[n].kind = "element" /\ doc[n].tagName = "BODY"

parentElement(n) ==
  IF n \in DOMAIN doc /\ IsElement(doc[n].parent) THEN doc[n].parent ELSE NoElement

RECURSIVE IsUnder(_, _)
\* n is a strict descendant of root
IsUnder(n, root) ==
  LET p == doc[n].parent
  IN IF p = 0 THEN FALSE ELSE p = root \/ IsUnder(p, root)

getComputedStyle(element) == doc[element].style

RECURSIVE HasBox(_)
\* an element generates a layout box unless it or an ancestor has display none
HasBox(element) ==
  /\ doc[element].style.display # "none"
  /\ parentElement(element) = NoElement \/ HasBox(parentElement(element))

offsetWidth(element) ==
  IF HasBox(element) THEN doc[element].box.offsetWidth ELSE 0

offsetHeight(element) ==
  IF HasBox(element) THEN doc[element].box.offsetHeight ELSE 0

\* the DOMRect of the element in viewport coordinates; a fixed box does not
\* move with the scroll offset, an element without a box has the zero rect
getBoundingClientRect(element) ==
  LET b == doc[element].box
      t == IF doc[element].style.position = "fixed" THEN b.top ELSE b.top - scrollTop
  IN IF HasBox(element)
       THEN [x |-> b.left, y |-> t, width |-> b.offsetWidth, height |-> b.offsetHeight,
             top |-> t, left |-> b.left,
             right |-> b.left + b.offsetWidth, bottom |-> t + b.offsetHeight]
       ELSE [x |-> 0, y |-> 0, width |-> 0, height |-> 0,
             top |-> 0, left |-> 0, right |-> 0, bottom |-> 0]

----------------------------------------------------------------------------
(* Visibility classifier *)

RECURSIVE AncestorHidden(_)
\* the while loop over parent elements, stopping at (and excluding) the body
AncestorHidden(parent) ==
  IF parent = NoElement \/ parent = body THEN FALSE
  ELSE LET parentStyles == getComputedStyle(parent)
       IN IF parentStyles.display = "none" \/ parentStyles.visibility = "hidden"
            THEN TRUE
            ELSE AncestorHidden(parentElement(parent))

isHiddenOrLowVisibility(element) ==
  IF element = NoElement THEN FALSE
  ELSE LET styles == getComputedStyle(element)
           rect == getBoundingClientRect(element)
       IN \/ styles.display = "none"
          \/ styles.visibility = "hidden"
          \/ styles.opacity < OpacityThresholdPct
          \/ styles.fontSize < FontSizeThreshold
          \/ offsetWidth(element) = 0 /\ offsetHeight(element) = 0
          \/ /\ styles.position \in {"absolute", "fixed"}
             /\ \/ rect.left < -OffscreenLimit \/ rect.left > OffscreenLimit
                \/ rect.top < -OffscreenLimit \/ rect.top > OffscreenLimit
          \/ /\ styles.color.fn # "empty" /\ styles.backgroundColor.fn # "empty"
             /\ colorsAreSimilar(styles.color, styles.backgroundColor)
          \/ AncestorHidden(parentElement(element))

----------------------------------------------------------------------------
(* Path resolver *)

\* tagName.toLowerCase() of the element names the documents use
LowerTag == [t \in {"HTML", "HEAD", "BODY", "DIV", "SPAN", "META"} |->
               CASE t = "HTML" -> "html" [] t = "HEAD" -> "head"
                 [] t = "BODY" -> "body" [] t = "DIV" -> "div"
                 [] t = "SPAN" -> "span" [] t = "META" -> "meta"]

\* Array.from(parentElement.children).indexOf(current) + 1
ChildIndex(current) ==
  Cardinality({s \in DOMAIN doc : /\ IsElement(s)
                                  /\ doc[s].parent = doc[current].parent
                                  /\ s < current}) + 1

\* One compound selector of the path: tag, then either #id or the classes
\* joined by "." followed by :nth-child(nth). id = <<>> when no id is
\* written, nth = 0 when no :nth-child is written.
Selector(current) ==
  IF doc[current].id # <<>>
    THEN [tag |-> LowerTag[doc[current].tagName], id |-> doc[current].id,
          classes |-> <<>>, nth |-> 0]
    ELSE [tag |-> LowerTag[doc[current].tagName], id |-> <<>>,
          classes |-> doc[current].className,
          nth |-> IF parentElement(current) # NoElement
                    THEN ChildIndex(current) ELSE 0]

RECURSIVE PathFrom(_)
\* the while loop of getCssPath: the selectors from current upwards, top first
PathFrom(current) ==
  IF current = NoElement \/ current = body \/ current = documentElement
    THEN <<>>
  ELSE IF doc[current].id # <<>>
    THEN <<Selector(current)>>
  ELSE PathFrom(parentElement(current)) \o <<Selector(current)>>

\* the selectors joined with " > "
getCssPath(element) ==
  IF element = NoElement THEN <<>> ELSE PathFrom(element)

----------------------------------------------------------------------------
(* document.querySelector *)

Letters == {LowerCase[i] : i \in 1..26} \cup {UpperCase[i] : i \in 1..26}
Digits == {"0", "1", "2", "3", "4", "5", "6", "7", "8", "9"}

\* a name that can be written after "#" or "." as it stands; any other name
\* (a leading digit, a ":" as in md:flex) makes the selector text unparsable
IsCssIdent(name) ==
  /\ name # <<>>
  /\ name[1] \in Letters \cup {"_"}
  /\ \A i \in 1..Len(name) : name[i] \in Letters \cup Digits \cup {"_", "-"}

\* the selector text parses: it is not empty and every name in it is an identifier
IsValidSelector(path) ==
  /\ path # <<>>
  /\ \A k \in 1..Len(path) :
       /\ path[k].id = <<>> \/ IsCssIdent(path[k].id)
       /\ \A c \in 1..Len(path[k].classes) : IsCssIdent(path[k].classes[c])

MatchesCompound(element, sel) ==
  /\ LowerTag[doc[element].tagName] = sel.tag
  /\ sel.id = <<>> \/ doc[element].id = sel.id
  /\ \A c \in 1..Len(sel.classes) :
       \E d \in 1..Len(doc[element].className) :
         doc[element].className[d] = sel.classes[c]
  /\ sel.nth = 0 \/ (parentElement(element) # NoElement /\ ChildIndex(element) = sel.nth)

RECURSIVE MatchesPath(_, _)
\* compound selectors joined by the child combinator
MatchesPath(element, path) ==
  /\ MatchesCompound(element, path[Len(path)])
  /\ \/ Len(path) = 1
     \/ /\ parentElement(element) # NoElement
        /\ MatchesPath(parentElement(element), SubSeq(path, 1, Len(path) - 1))

SyntaxError == -1

\* the first matching element in document order, NoElement (null) when none
\* matches, SyntaxError when the selector text does not parse (an exception)
querySelector(path) ==
  IF ~IsValidSelector(path) THEN SyntaxError
  ELSE LET hits == {n \in DOMAIN doc : IsElement(n) /\ MatchesPath(n, path)}
       IN IF hits = {} THEN NoElement
          ELSE CHOOSE n \in hits : \A m \in hits : n <= m

----------------------------------------------------------------------------
(* Scan orchestrator *)

\* a reason tag is the list of the pieces its text is built from:
\* <<"display_none">>, or <<"hidden_in_attribute_">> \o attr.name
Tag(s) == <<s>>

When(cond, tag) == IF cond THEN <<tag>> ELSE <<>>

\* findings.push({id: findingIdCounter++, ...}) on the scan state s
Push(s, text, reason, cssPath, boundingRect) ==
  [findings |-> Append(s.findings,
                       [id |-> s.counter, text |-> text, reason |-> reason,
                        cssPath |-> cssPath, boundingRect |-> boundingRect]),
   counter |-> s.counter + 1]

\* the counter survives the reset
ClearFindingsKeepsCounter(fs, ctr) == [findings |-> <<>>, counter |-> ctr]

\* the collection survives the reset
ClearFindingsKeepsFindings(fs, ctr) == [findings |-> fs, counter |-> Len(fs)]

\* "Clear previous findings"
ClearFindings(fs, ctr) == [findings |-> <<>>, counter |-> 0]

\* the reasons array of a text-node finding
TextReasons(element, isInstruction) ==
  LET styles == getComputedStyle(element)
      rect == getBoundingClientRect(element)
  IN When(styles.display = "none", Tag("display_none"))
     \o When(styles.visibility = "hidden", Tag("visibility_hidden"))
     \o When(styles.opacity < OpacityThresholdPct, Tag("opacity_near_zero"))
     \o When(styles.fontSize < FontSizeThreshold, Tag("tiny_font_size"))
     \o When(offsetWidth(element) = 0 /\ offsetHeight(element) = 0,
             Tag("zero_dimensions"))
     \o When(/\ styles.position \in {"absolute", "fixed"}
             /\ \/ rect.left < -OffscreenLimit \/ rect.left > OffscreenLimit
                \/ rect.top < -OffscreenLimit \/ rect.top > OffscreenLimit,
             Tag("positioned_offscreen"))
     \o When(/\ styles.color.fn # "empty" /\ styles.backgroundColor.fn # "empty"
             /\ colorsAreSimilar(styles.color, styles.backgroundColor),
             Tag("hidden_color_match"))
     \o When(isInstruction, Tag("contains_suspicious_instructions"))

\* the body of the TreeWalker loop for text node n
ScanTextNode(n, s) ==
  LET text == trim(doc[n].data)
      parent == parentElement(n)
  IN IF Len(text) < MinTextLength THEN s
     ELSE IF parent = NoElement THEN s
     ELSE LET isHidden == isHiddenOrLowVisibility(parent)
              isInstruction == looksLikePromptInstruction(text)
              rect == getBoundingClientRect(parent)
          IN IF isHidden /\ isInstruction
               THEN Push(s, text, TextReasons(parent, isInstruction),
                         getCssPath(parent),
                         [top |-> rect.top, left |-> rect.left,
                          width |-> rect.width, height |-> rect.height])
               ELSE s

RECURSIVE TextPass(_, _)
\* createTreeWalker(document.body, SHOW_TEXT): the text nodes under the body
TextPass(n, s) ==
  IF n > Len(doc) THEN s
  ELSE TextPass(n + 1, IF doc[n].kind = "text" /\ IsUnder(n, body)
                         THEN ScanTextNode(n, s) ELSE s)

\* the comment loop without its length check
ScanCommentNoFloor(n, s) ==
  LET text == trim(doc[n].data)
      parent == parentElement(n)
  IN IF looksLikePromptInstruction(text) /\ parent # NoElement
       THEN Push(s, text,
                 <<Tag("html_comment"), Tag("contains_suspicious_instructions")>>,
                 getCssPath(parent),
                 [top |-> 0, left |-> 0, width |-> 0, height |-> 0])
       ELSE s

\* the body of the NodeIterator loop for comment node n
ScanComment(n, s) ==
  LET text == trim(doc[n].data)
      parent == parentElement(n)
  IN IF Len(text) < MinTextLength THEN s
     ELSE IF looksLikePromptInstruction(text) /\ parent # NoElement
       THEN Push(s, text,
                 <<Tag("html_comment"), Tag("contains_suspicious_instructions")>>,
                 getCssPath(parent),
                 [top |-> 0, left |-> 0, width |-> 0, height |-> 0])
       ELSE s

RECURSIVE CommentPass(_, _)
\* createNodeIterator(document.body, SHOW_COMMENT): the comments under the body
CommentPass(n, s) ==
  IF n > Len(doc) THEN s
  ELSE CommentPass(n + 1, IF doc[n].kind = "comment" /\ IsUnder(n, body)
                            THEN ScanComment(n, s) ELSE s)

DataPrefix == <<"d","a","t","a","-">>
TitleName == <<"t","i","t","l","e">>
AltName == <<"a","l","t">>

\* the attribute names the attribute pass reads
IsScannedAttribute(name) ==
  startsWith(name, DataPrefix) \/ name = TitleName \/ name = AltName

\* the attribute callback with a visibility check added
ScanAttributeIfHidden(element, attr, s) ==
  IF IsScannedAttribute(attr.name) /\ isHiddenOrLowVisibility(element)
    THEN LET text == trim(attr.value)
         IN IF Len(text) >= MinTextLength /\ looksLikePromptInstruction(text)
              THEN Push(s, text,
                        <<<<"hidden_in_attribute_">> \o attr.name,
                          Tag("contains_suspicious_instructions")>>,
                        getCssPath(element),
                        getBoundingClientRect(element))
              ELSE s
    ELSE s

\* the inner forEach callback for one attribute of an element
ScanAttribute(element, attr, s) ==
  IF IsScannedAttribute(attr.name)
    THEN LET text == trim(attr.value)
         IN IF Len(text) >= MinTextLength /\ looksLikePromptInstruction(text)
              THEN Push(s, text,
                        <<<<"hidden_in_attribute_">> \o attr.name,
                          Tag("contains_suspicious_instructions")>>,
                        getCssPath(element),
                        getBoundingClientRect(element))
              ELSE s
    ELSE s

RECURSIVE AttributePass(_, _, _)
\* querySelectorAll('*').forEach: every element, every attribute, in order
AttributePass(n, a, s) ==
  IF n > Len(doc) THEN s
  ELSE IF ~IsElement(n) \/ a > Len(doc[n].attributes) THEN AttributePass(n + 1, 1, s)
  ELSE AttributePass(n, a + 1, ScanAttribute(n, doc[n].attributes[a], s))

\* one run of the scan from the collection fs and the counter ctr
scanForHiddenPromptInjections(fs, ctr) ==
  AttributePass(1, 1, CommentPass(1, TextPass(1, ClearFindings(fs, ctr))))

----------------------------------------------------------------------------
(* Highlighter *)

RedOutline == "3px solid red"

\* scrollIntoView({block: 'center'}) in a viewport as tall as the element:
\* the page scrolls until the box's top is at the viewport's top, as far as
\* the page can scroll; a fixed box and an element without a box do not scroll
scrollIntoView(element) ==
  IF HasBox(element) /\ doc[element].style.position # "fixed"
    THEN (IF doc[element].box.top > 0 THEN doc[element].box.top ELSE 0)
    ELSE scrollTop

\* findings.find(f => f.id === findingId): the position of the first such
\* finding, 0 when there is none
FindFinding(findingId) ==
  LET hits == {k \in 1..Len(findings) : findings[k].id = findingId}
  IN IF hits = {} THEN 0 ELSE CHOOSE k \in hits : \A j \in hits : k <= j

\* the try block without its catch: a SyntaxError reaches the caller
TryHighlightNoCatch(element) ==
  IF element = SyntaxError
    THEN [doc |-> doc, scrollTop |-> scrollTop, timers |-> timers, thrown |-> TRUE]
  ELSE IF element = NoElement
    THEN [doc |-> doc, scrollTop |-> scrollTop, timers |-> timers, thrown |-> FALSE]
    ELSE [doc |-> [doc EXCEPT ![element].outline = RedOutline,
                              ![element].outlineOffset = "2px"],
          scrollTop |-> scrollIntoView(element),
          timers |-> Append(timers, [element |-> element,
                                     originalOutline |-> doc[element].outline]),
          thrown |-> FALSE]

\* what the try block does with the result of querySelector; a SyntaxError
\* is caught and logged
TryHighlight(element) ==
  IF element = SyntaxError \/ element = NoElement
    THEN [doc |-> doc, scrollTop |-> scrollTop, timers |-> timers, thrown |-> FALSE]
    ELSE [doc |-> [doc EXCEPT ![element].outline = RedOutline,
                              ![element].outlineOffset = "2px"],
          scrollTop |-> scrollIntoView(element),
          timers |-> Append(timers, [element |-> element,
                                     originalOutline |-> doc[element].outline]),
          thrown |-> FALSE]

\* the state highlightElementById leaves, and whether it threw to its caller
highlightElementById(findingId) ==
  LET k == FindFinding(findingId)
  IN IF k = 0
       THEN [doc |-> doc, scrollTop |-> scrollTop, timers |-> timers, thrown |-> FALSE]
       ELSE TryHighlight(querySelector(findings[k].cssPath))

----------------------------------------------------------------------------
(* Sample documents *)

\* "Ignore all previous": a keyword after lower-casing
InstrText ==
  <<"I","g","n","o","r","e"," ","a","l","l"," ","p","r","e","v","i","o","u","s">>

\* an imperative, 14 characters once trimmed
PaddedInstr ==
  <<" "," ","g","o"," ","t","o"," ","h","t","t","p",":","/","/","x"," ","\n">>

\* an imperative of exactly 10 characters
TenChars ==
  <<"r","u","n"," ","i","t"," ","n","o","w">>

\* a keyword, 9 characters
ShortInstr ==
  <<"s","e","n","d"," ","d","a","t","a">>

\* a keyword, 14 characters, 6 once trimmed
PaddedShort ==
  <<" "," "," "," ","l","o","g"," ","i","n"," "," "," "," ">>

\* no keyword, no imperative
Benign ==
  <<"H","e","l","l","o",","," ","w","o","r","l","d","!">>

\* a keyword ("log in") inside other words
SubstringHit ==
  <<"m","y"," ","b","l","o","g"," ","i","n"," ","2","0","2","4">>

\* a keyword; also an imperative
InstrComment ==
  <<"e","x","e","c","u","t","e"," ","t","h","e"," ","f","o","l","l","o","w","i","n","g">>

\* a keyword, 8 characters once trimmed
PaddedShortComment ==
  <<" "," ","s","e","c","r","e","t","l","y"," "," "," "," "," "," "," "," "," "," "," "," "," "," "," ">>

\* a keyword; also an imperative
InstrAttr ==
  <<"n","a","v","i","g","a","t","e"," ","t","o"," ","h","t","t","p",":","/","/","e">>

Name_a == <<"a">>
Name_c == <<"c">>
Name_mdflex == <<"m","d",":","f","l","e","x">>
Name_href == <<"h","r","e","f">>
Name_dataTitle == <<"d","a","t","a","-","t","i","t","l","e">>
Name_xdata == <<"x","-","d","a","t","a","-">>

Black == Rgb(0, 0, 0)
White == Rgb(255, 255, 255)
Transparent == Rgba(0, 0, 0, 0)

\* an ordinary visible block: black text, no background of its own
VisibleStyle ==
  [display |-> "block", visibility |-> "visible", opacity |-> 100, fontSize |-> 16,
   position |-> "static", color |-> Black, backgroundColor |-> Transparent]

PlainBox == [offsetWidth |-> 100, offsetHeight |-> 20, left |-> 0, top |-> 0]

Plain == [style |-> VisibleStyle, box |-> PlainBox]
DisplayNone == [Plain EXCEPT !.style.display = "none"]
VisibilityHidden == [Plain EXCEPT !.style.visibility = "hidden"]
\* further down the page, so that scrolling to it moves the viewport
LowerDown == [Plain EXCEPT !.box.top = 300]

\* the rendering of one element: each visibility check alone, just past and
\* just short of its threshold, and two checks together
Profiles ==
  { Plain, DisplayNone, VisibilityHidden,
    [LowerDown EXCEPT !.style.opacity = 4],
    [Plain EXCEPT !.style.opacity = 5],
    [Plain EXCEPT !.style.fontSize = 4],
    [Plain EXCEPT !.style.fontSize = 5],
    [Plain EXCEPT !.box.offsetWidth = 0, !.box.offsetHeight = 0],
    [Plain EXCEPT !.box.offsetWidth = 0],
    [Plain EXCEPT !.style.position = "fixed", !.box.left = -5001],
    [Plain EXCEPT !.style.position = "absolute", !.box.top = 5001],
    [Plain EXCEPT !.style.position = "absolute", !.box.top = 5000],
    [Plain EXCEPT !.box.top = 6000],
    [Plain EXCEPT !.style.color = White, !.style.backgroundColor = Rgb(240, 240, 240)],
    [Plain EXCEPT !.style.color = White, !.style.backgroundColor = Rgb(200, 255, 255)],
    [Plain EXCEPT !.style.display = "none", !.style.opacity = 0] }

Element(parent, tagName, id, className, attributes, look) ==
  [kind |-> "element", parent |-> parent, tagName |-> tagName, id |-> id,
   className |-> className, attributes |-> attributes,
   style |-> look.style, box |-> look.box, outline |-> "", outlineOffset |-> ""]

TextNode(parent, data) == [kind |-> "text", parent |-> parent, data |-> data]
CommentNode(parent, data) == [kind |-> "comment", parent |-> parent, data |-> data]

Attr(name, value) == [name |-> name, value |-> value]

Html == Element(0, "HTML", <<>>, <<>>, <<>>, Plain)
Body == Element(1, "BODY", <<>>, <<>>, <<>>, Plain)

\* a text node in a block inside another block: the visibility of the text's
\* parent and of a more distant ancestor, and the text's length and wording
NestedTextDocs ==
  { << Html, Body,
       Element(2, "DIV", <<>>, <<>>, <<>>, outer),
       Element(3, "DIV", <<>>, <<>>, <<>>, inner),
       TextNode(4, text) >> :
    outer \in {Plain, DisplayNone, VisibilityHidden},
    inner \in Profiles,
    text \in {InstrText, Benign} }
  \cup
  { << Html, Body,
       Element(2, "DIV", <<>>, <<>>, <<>>, Plain),
       Element(3, "DIV", <<>>, <<>>, <<>>, inner),
       TextNode(4, text) >> :
    inner \in {Plain, DisplayNone},
    text \in {PaddedInstr, TenChars, ShortInstr, PaddedShort, SubstringHit} }

\* comments and attributes, on and under a visible or a hidden element
CommentAttrDocs ==
  { << Html, Body,
       CommentNode(2, c0),
       Element(2, "DIV", <<>>, <<>>, <<Attr(Name_href, InstrAttr)>>, look),
       CommentNode(4, c1) >> :
    c0 \in {InstrComment, PaddedShortComment, Benign},
    c1 \in {InstrComment, Benign},
    look \in {Plain, DisplayNone} }
  \cup
  { << Html, Body,
       CommentNode(2, InstrComment),
       Element(2, "DIV", <<>>, <<>>, <<Attr(Name_href, InstrAttr), Attr(name, value)>>, look),
       TextNode(4, InstrText) >> :
    look \in {LowerDown, DisplayNone},
    name \in {TitleName, AltName, Name_dataTitle, Name_href, Name_xdata},
    value \in {InstrAttr, PaddedShort, SubstringHit} }

\* text, a comment and attributes at and above the body
TopLevelDocs ==
  { << Element(0, "HTML", <<>>, <<>>, attrs, htmlLook),
       Element(1, "HEAD", <<>>, <<>>, <<>>, DisplayNone),
       Element(2, "META", <<>>, <<>>, attrs, DisplayNone),
       Element(1, "BODY", <<>>, <<>>, attrs, bodyLook),
       TextNode(4, text),
       CommentNode(4, InstrComment) >> :
    attrs \in {<<>>, <<Attr(Name_dataTitle, InstrAttr)>>},
    htmlLook \in {Plain, VisibilityHidden},
    bodyLook \in {Plain, [Plain EXCEPT !.style.opacity = 0]},
    text \in {InstrText, Benign} }

\* Element trees under the body: four blocks, nodes 3..6 in document order,
\* each tree given by the parent of every block (2 is the body)
Blocks == 3..6

TreeShapes ==
  { <<0, 0, 2, 2, 2, 2>>,     \* four siblings
    <<0, 0, 2, 3, 4, 5>>,     \* a chain
    <<0, 0, 2, 3, 3, 2>>,     \* a block with two children, then its sibling
    <<0, 0, 2, 3, 2, 5>> }    \* two blocks with one child each

\* how the blocks are named: [id, className] by position
Namings ==
  { [n \in Blocks |-> [id |-> <<>>, className |-> <<>>]],
    [n \in Blocks |-> [id |-> <<>>, className |-> IF n > 4 THEN <<Name_c>> ELSE <<>>]],
    [n \in Blocks |-> [id |-> IF n % 2 = 1 THEN Name_a ELSE <<>>, className |-> <<>>]],
    [n \in Blocks |-> [id |-> <<>>,
                       className |-> IF n = 4 THEN <<Name_c, Name_mdflex>>
                                     ELSE <<>>]] }

\* one block carries an instruction in its title attribute
TreeDocs ==
  { <<Html, Body>> \o
    [k \in 1..4 |->
       LET n == k + 2
       IN Element(pv[n], "DIV", naming[n].id, naming[n].className,
                  IF n = marked THEN <<Attr(TitleName, InstrAttr)>> ELSE <<>>,
                  Plain)] :
    pv \in TreeShapes, naming \in Namings, marked \in Blocks }

Documents == NestedTextDocs \cup CommentAttrDocs \cup TopLevelDocs \cup TreeDocs

----------------------------------------------------------------------------
(* The content script *)

NoResponse == [type |-> "none"]

\* scanDoc before any scan has run
NotScanned == <<>>

\* the state a run of the scan leaves
ScanStep ==
  LET s == scanForHiddenPromptInjections(findings, findingIdCounter)
  IN /\ findings' = s.findings
     /\ findingIdCounter' = s.counter
     /\ scanDoc' = doc
     /\ scanScroll' = scrollTop

\* The script has run to its end: the store is empty and, unless the document
\* was still loading, the first scan has run.
Init ==
  /\ doc \in Documents
  /\ scrollTop = 0
  /\ readyState \in {"loading", "complete"}
  /\ timers = <<>>
  /\ response = NoResponse
  /\ uncaught = FALSE
  /\ mutations = 0
  /\ scanScroll = 0
  /\ IF readyState = "loading"
       THEN findings = <<>> /\ findingIdCounter = 0 /\ scanDoc = NotScanned
       ELSE LET s == scanForHiddenPromptInjections(<<>>, 0)
            IN findings = s.findings /\ findingIdCounter = s.counter /\ scanDoc = doc

\* document.addEventListener('DOMContentLoaded', scanForHiddenPromptInjections)
DOMContentLoaded ==
  /\ readyState = "loading"
  /\ readyState' = "interactive"
  /\ UNCHANGED <<doc, scrollTop, timers, response, uncaught, mutations>>
  /\ ScanStep

\* message.type === 'GET_FINDINGS'
GetFindings ==
  /\ response' = [type |-> "GET_FINDINGS", findings |-> findings]
  /\ UNCHANGED <<doc, scrollTop, readyState, findings, findingIdCounter, timers,
                 uncaught, scanDoc, scanScroll, mutations>>

\* message.type === 'HIGHLIGHT_FINDING' with message.id = id; sendResponse is
\* reached only if highlightElementById returns
HighlightFinding(id) ==
  LET h == highlightElementById(id)
  IN /\ Len(h.timers) <= MaxTimers
     /\ doc' = h.doc
     /\ scrollTop' = h.scrollTop
     /\ timers' = h.timers
     /\ uncaught' = (uncaught \/ h.thrown)
     /\ response' = IF h.thrown THEN response
                    ELSE [type |-> "HIGHLIGHT_FINDING", success |-> TRUE]
     /\ UNCHANGED <<readyState, findings, findingIdCounter, scanDoc, scanScroll,
                    mutations>>

\* RESCAN answered with the collection as it was before the scan
RescanAnswersBeforeScan ==
  /\ UNCHANGED <<doc, scrollTop, readyState, timers, uncaught, mutations>>
  /\ ScanStep
  /\ response' = [type |-> "RESCAN", findings |-> findings]

\* message.type === 'RESCAN'
Rescan ==
  /\ UNCHANGED <<doc, scrollTop, readyState, timers, uncaught, mutations>>
  /\ ScanStep
  /\ response' = [type |-> "RESCAN", findings |-> findings']

\* the oldest pending setTimeout callback runs (all have the same delay)
TimerFires ==
  /\ timers # <<>>
  /\ LET t == Head(timers)
     IN doc' = [doc EXCEPT ![t.element].outline = t.originalOutline,
                           ![t.element].outlineOffset = ""]
  /\ timers' = Tail(timers)
  /\ UNCHANGED <<scrollTop, readyState, findings, findingIdCounter, response,
                 uncaught, scanDoc, scanScroll, mutations>>

\* the page changes its own document: a block loses its class attribute
PageMutation ==
  /\ mutations < MaxMutations
  /\ \E n \in DOMAIN doc :
       /\ IsElement(n) /\ doc[n].className # <<>>
       /\ doc' = [doc EXCEPT ![n].className = <<>>]
  /\ mutations' = mutations + 1
  /\ UNCHANGED <<scrollTop, readyState, findings, findingIdCounter, timers,
                 response, uncaught, scanDoc, scanScroll>>

Next ==
  \/ DOMContentLoaded
  \/ GetFindings
  \/ \E id \in 0..Len(findings) : HighlightFinding(id)
  \/ Rescan
  \/ TimerFires
  \/ PageMutation

Spec == Init /\ [][Next]_vars

----------------------------------------------------------------------------
(* Vocabulary of the properties *)

\* the collection is the result of a scan of the document as it is now
Fresh == scanDoc = doc /\ scanScroll = scrollTop

RECURSIVE Ascending(_)
\* the members of a set of node indices in document order
Ascending(S) ==
  IF S = {} THEN <<>>
  ELSE LET lo == CHOOSE n \in S : \A m \in S : n <= m
       IN <<lo>> \o Ascending(S \ {lo})

HasTag(f, s) == \E r \in 1..Len(f.reason) : f.reason[r] = Tag(s)

IsCommentFinding(f) == f.reason # <<>> /\ f.reason[1] = Tag("html_comment")
IsAttributeFinding(f) == f.reason # <<>> /\ f.reason[1][1] = "hidden_in_attribute_"
IsTextFinding(f) == ~IsCommentFinding(f) /\ ~IsAttributeFinding(f)

TextFindings == SelectSeq(findings, IsTextFinding)
CommentFindings == SelectSeq(findings, IsCommentFinding)
AttributeFindings == SelectSeq(findings, IsAttributeFinding)

TextNodesUnderBody == {n \in DOMAIN doc : doc[n].kind = "text" /\ IsUnder(n, body)}
CommentsUnderBody == {n \in DOMAIN doc : doc[n].kind = "comment" /\ IsUnder(n, body)}

\* the strict ancestors of an element that lie below the body
AncestorsBelowBody(element) ==
  {a \in DOMAIN doc : IsElement(a) /\ IsUnder(element, a) /\ IsUnder(a, body)}

\* the eight checks of the visibility classifier, one by one
CheckDisplayNone(e) == doc[e].style.display = "none"
CheckVisibilityHidden(e) == doc[e].style.visibility = "hidden"
CheckOpacity(e) == doc[e].style.opacity < 5
CheckFontSize(e) == doc[e].style.fontSize < 5
CheckZeroDimensions(e) == offsetWidth(e) = 0 /\ offsetHeight(e) = 0
CheckOffscreen(e) ==
  /\ doc[e].style.position \in {"absolute", "fixed"}
  /\ LET r == getBoundingClientRect(e)
     IN r.left < -5000 \/ r.left > 5000 \/ r.top < -5000 \/ r.top > 5000
CheckColorMatch(e) == colorsAreSimilar(doc[e].style.color, doc[e].style.backgroundColor)
CheckAncestor(e) ==
  \E a \in AncestorsBelowBody(e) : CheckDisplayNone(a) \/ CheckVisibilityHidden(a)

HiddenByTheEightChecks(e) ==
  \/ CheckDisplayNone(e) \/ CheckVisibilityHidden(e) \/ CheckOpacity(e)
  \/ CheckFontSize(e) \/ CheckZeroDimensions(e) \/ CheckOffscreen(e)
  \/ CheckColorMatch(e) \/ CheckAncestor(e)

LongEnough(s) == Len(trim(s)) >= 10

----------------------------------------------------------------------------
(* C1 *)

\* the text nodes C1 says produce a finding
C1_Expected ==
  Ascending({n \in TextNodesUnderBody :
               /\ LongEnough(doc[n].data)
               /\ HiddenByTheEightChecks(doc[n].parent)
               /\ looksLikePromptInstruction(trim(doc[n].data))})

\* C1: after a scan, the text-node findings are, in document order, exactly one
\* per text node under the body whose trimmed content has length >= 10, whose
\* parent element is hidden by one of the eight checks of the visibility
\* classifier (the eighth being a strict ancestor below the body with display
\* none or visibility hidden) and whose trimmed text looks like an instruction;
\* no other text node produces a finding.
C1_TextFindingIffAllThree ==
  Fresh =>
    /\ Len(TextFindings) = Len(C1_Expected)
    /\ \A k \in 1..Len(TextFindings) :
         /\ TextFindings[k].text = trim(doc[C1_Expected[k]].data)
         /\ TextFindings[k].cssPath = getCssPath(doc[C1_Expected[k]].parent)

----------------------------------------------------------------------------
(* C2 *)

\* the element ancestors of a text node below the body, the parent included
ElementAncestorsBelowBody(n) ==
  {a \in DOMAIN doc : IsElement(a) /\ IsUnder(n, a) /\ IsUnder(a, body)}

C2_Nodes ==
  {n \in TextNodesUnderBody :
     /\ LongEnough(doc[n].data)
     /\ looksLikePromptInstruction(trim(doc[n].data))
     /\ \E a \in ElementAncestorsBelowBody(n) : CheckDisplayNone(a)}

\* C2: after a scan, every instruction-like text node (trimmed length >= 10)
\* with an element ancestor below the body whose display is none, be it the
\* parent or a more distant ancestor, has exactly one finding, and that
\* finding's reasons include display_none and contains_suspicious_instructions.
C2_DisplayNoneAncestorTagged ==
  Fresh =>
    \A n \in C2_Nodes :
      LET mine == {k \in 1..Len(TextFindings) :
                     /\ TextFindings[k].text = trim(doc[n].data)
                     /\ TextFindings[k].cssPath = getCssPath(doc[n].parent)}
      IN /\ Cardinality(mine) = 1
         /\ \A k \in mine : /\ HasTag(TextFindings[k], "display_none")
                            /\ HasTag(TextFindings[k], "contains_suspicious_instructions")

----------------------------------------------------------------------------
(* C3 *)

VisibilityTags ==
  {"display_none", "visibility_hidden", "opacity_near_zero", "tiny_font_size",
   "zero_dimensions", "positioned_offscreen", "hidden_color_match"}

\* C3: every finding has a non-empty reason list containing
\* contains_suspicious_instructions, and every finding that is not a comment
\* finding (html_comment) or an attribute finding (hidden_in_attribute_<name>)
\* also carries at least one of the seven visibility tags.
C3_ReasonsExplainHiding ==
  \A k \in 1..Len(findings) :
    /\ findings[k].reason # <<>>
    /\ HasTag(findings[k], "contains_suspicious_instructions")
    /\ IsTextFinding(findings[k]) => \E t \in VisibilityTags : HasTag(findings[k], t)

----------------------------------------------------------------------------
(* C4 *)

\* the pass a finding comes from: 1 text nodes, 2 comments, 3 attributes
PassOf(f) == IF IsCommentFinding(f) THEN 2 ELSE IF IsAttributeFinding(f) THEN 3 ELSE 1

\* C4: in every reachable state the finding at position i of the collection
\* has id i - 1, so the ids are pairwise distinct and are exactly 0..count-1,
\* the counter stands at the count, and the findings are in discovery order:
\* text-node findings, then comment findings, then attribute findings.
C4_IdsAreZeroToCount ==
  /\ \A i \in 1..Len(findings) : findings[i].id = i - 1
  /\ findingIdCounter = Len(findings)
  /\ \A i, j \in 1..Len(findings) : i < j => PassOf(findings[i]) <= PassOf(findings[j])

\* a second scan (the first ran as the script loaded) has produced findings
\* from all three passes
C4_Witness ==
  /\ readyState = "complete"
  /\ response.type = "RESCAN"
  /\ TextFindings # <<>> /\ CommentFindings # <<>> /\ AttributeFindings # <<>>

----------------------------------------------------------------------------
(* C5 *)

\* a run of the scan, from either trigger
AnyScan == Rescan \/ DOMContentLoaded

\* C5 as stated: a scan of a document that is as the previous scan read it
\* yields the collection the previous scan yielded, boundingRect included.
C5_SameDocumentSameFindings ==
  [][(AnyScan /\ scanDoc = doc) => findings' = findings]_vars

\* C5, amended: a scan of a document that is as the previous scan read it, in
\* a viewport scrolled as it was then, yields the collection the previous scan
\* yielded: the same ids from 0, texts, reasons, cssPaths and boundingRects.
C5_SameDocumentAndScrollSameFindings ==
  [][(AnyScan /\ scanDoc = doc /\ scanScroll = scrollTop) => findings' = findings]_vars

\* a rescan of an unchanged, unscrolled document has answered with findings
C5_Witness ==
  /\ readyState = "complete"
  /\ response.type = "RESCAN" /\ response.findings = findings
  /\ findings # <<>>
  /\ Fresh /\ scrollTop = 0 /\ mutations = 0 /\ timers = <<>>

----------------------------------------------------------------------------
(* C6 *)

\* what a scan of the document as it is yields, from an empty store
CompleteScan == scanForHiddenPromptInjections(<<>>, 0).findings

\* C6: the collection is empty until the first scan; a scan leaves exactly the
\* complete result of scanning the document, nothing carried over; GET_FINDINGS,
\* HIGHLIGHT_FINDING and a restoration timer leave the collection unchanged; a
\* GET_FINDINGS response is the whole current collection and a RESCAN response
\* is the whole result of the scan it triggered.
C6_OnlyTheScanWrites ==
  [][/\ scanDoc = NotScanned => findings = <<>>
     /\ DOMContentLoaded => findings' = CompleteScan
     /\ (response'.type = "RESCAN" /\ Rescan) =>
          /\ findings' = CompleteScan
          /\ response' = [type |-> "RESCAN", findings |-> CompleteScan]
     /\ GetFindings =>
          /\ findings' = findings
          /\ response' = [type |-> "GET_FINDINGS", findings |-> findings]
     /\ findings' = findings \/ ~(\E id \in 0..Len(findings) : HighlightFinding(id))
     /\ findings' = findings \/ ~TimerFires]_vars

\* the findings of the scan run at DOMContentLoaded were read while a
\* highlight was pending
C6_Witness ==
  /\ response.type = "GET_FINDINGS" /\ response.findings = findings
  /\ Len(findings) >= 2
  /\ timers # <<>>
  /\ readyState = "interactive"

----------------------------------------------------------------------------
(* C7 *)

\* C7: every finding's text is already trimmed and has length >= 10, so no
\* text node, comment or attribute value shorter than 10 once trimmed has
\* produced a finding.
C7_NoiseFloor ==
  \A k \in 1..Len(findings) :
    /\ trim(findings[k].text) = findings[k].text
    /\ Len(findings[k].text) >= 10

\* a scan has passed over an instruction-like text of fewer than 10 characters
\* (more before trimming) in a hidden element and has recorded nothing for it
C7_Witness ==
  /\ Fresh
  /\ \E n \in TextNodesUnderBody :
       /\ Len(doc[n].data) >= 10 /\ ~LongEnough(doc[n].data)
       /\ looksLikePromptInstruction(trim(doc[n].data))
       /\ CheckDisplayNone(doc[n].parent)
  /\ TextFindings = <<>>

----------------------------------------------------------------------------
(* C8 *)

ZeroRect == [top |-> 0, left |-> 0, width |-> 0, height |-> 0]

C8_Comments ==
  Ascending({n \in CommentsUnderBody :
               LongEnough(doc[n].data) /\ looksLikePromptInstruction(trim(doc[n].data))})

C8_Names(at) ==
  \/ at.name = TitleName \/ at.name = AltName
  \/ (Len(at.name) >= 5 /\ SubSeq(at.name, 1, 5) = DataPrefix)

C8_Holds(at) ==
  C8_Names(at) /\ LongEnough(at.value) /\ looksLikePromptInstruction(trim(at.value))

RECURSIVE C8_AttributesFrom(_)
\* the title, alt and data-* attributes holding an instruction of length >= 10,
\* element by element in document order, with the element that owns each
C8_AttributesFrom(n) ==
  IF n > Len(doc) THEN <<>>
  ELSE (IF IsElement(n)
          THEN LET own == SelectSeq(doc[n].attributes, C8_Holds)
               IN [k \in 1..Len(own) |-> [element |-> n, attr |-> own[k]]]
          ELSE <<>>)
       \o C8_AttributesFrom(n + 1)

C8_Attributes == C8_AttributesFrom(1)

\* C8: after a scan, the comment findings are, in document order, exactly one
\* per comment under the body whose trimmed text has length >= 10 and looks
\* like an instruction, each with reason [html_comment,
\* contains_suspicious_instructions] and an all-zero rectangle; the attribute
\* findings are exactly one per title, alt or data-* attribute of any element
\* with such a value, each with reason [hidden_in_attribute_<name>,
\* contains_suspicious_instructions]; the visibility of the owning element
\* plays no part.
C8_CommentsAndAttributesRegardlessOfVisibility ==
  Fresh =>
    /\ Len(CommentFindings) = Len(C8_Comments)
    /\ \A k \in 1..Len(CommentFindings) :
         /\ CommentFindings[k].text = trim(doc[C8_Comments[k]].data)
         /\ CommentFindings[k].reason =
              <<Tag("html_comment"), Tag("contains_suspicious_instructions")>>
         /\ CommentFindings[k].boundingRect = ZeroRect
    /\ Len(AttributeFindings) = Len(C8_Attributes)
    /\ \A k \in 1..Len(AttributeFindings) :
         LET at == C8_Attributes[k].attr
         IN /\ AttributeFindings[k].text = trim(at.value)
            /\ AttributeFindings[k].reason =
                 <<<<"hidden_in_attribute_">> \o at.name,
                   Tag("contains_suspicious_instructions")>>

\* a scan has recorded a comment whose parent is visible and an attribute of
\* a visible element
C8_Witness ==
  /\ Fresh
  /\ \E k \in 1..Len(C8_Comments) : ~HiddenByTheEightChecks(doc[C8_Comments[k]].parent)
  /\ \E k \in 1..Len(C8_Attributes) : ~HiddenByTheEightChecks(C8_Attributes[k].element)
  /\ CommentFindings # <<>> /\ AttributeFindings # <<>>

----------------------------------------------------------------------------
(* C9 *)

\* the element each finding comes from, in discovery order
C9_Origins ==
  LET texts == Ascending({n \in TextNodesUnderBody :
                            /\ LongEnough(doc[n].data)
                            /\ isHiddenOrLowVisibility(doc[n].parent)
                            /\ looksLikePromptInstruction(trim(doc[n].data))})
  IN [k \in 1..Len(texts) |-> doc[texts[k]].parent]
     \o [k \in 1..Len(C8_Comments) |-> doc[C8_Comments[k]].parent]
     \o [k \in 1..Len(C8_Attributes) |-> C8_Attributes[k].element]

\* C9: while the document is as the scan read it, the cssPath of every
\* finding, resolved as highlightElementById resolves it (the first match in
\* document order), is the element the finding came from.
C9_CssPathReselectsOrigin ==
  Fresh =>
    /\ Len(findings) = Len(C9_Origins)
    /\ \A k \in 1..Len(findings) : querySelector(findings[k].cssPath) = C9_Origins[k]

----------------------------------------------------------------------------
(* C10 *)

\* highlighting id fails: no finding has the id, or its cssPath matches no
\* element, or its cssPath is not a valid selector
C10_Fails(id) ==
  \/ \A k \in 1..Len(findings) : findings[k].id # id
  \/ \E k \in 1..Len(findings) :
       /\ findings[k].id = id
       /\ querySelector(findings[k].cssPath) \in {NoElement, SyntaxError}

\* C10: a HIGHLIGHT_FINDING request whose id is not in the collection, or whose
\* finding's cssPath matches no element or is not a valid selector, changes
\* nothing in the document (no outline, no outlineOffset), does not scroll,
\* schedules no timer, lets no exception escape and is answered.
C10_FailedHighlightIsNoOp ==
  [][\A id \in 0..Len(findings) :
       (HighlightFinding(id) /\ C10_Fails(id)) =>
         /\ doc' = doc
         /\ scrollTop' = scrollTop
         /\ timers' = timers
         /\ uncaught' = FALSE
         /\ response' = [type |-> "HIGHLIGHT_FINDING", success |-> TRUE]]_vars

\* a highlight request has been answered in a state where no finding can be
\* highlighted: one's cssPath matches no element (the page has changed), and
\* nothing is outlined and no timer is pending
C10_Witness ==
  /\ response.type = "HIGHLIGHT_FINDING"
  /\ findings # <<>>
  /\ \A k \in 1..Len(findings) : C10_Fails(findings[k].id)
  /\ \E k \in 1..Len(findings) : querySelector(findings[k].cssPath) = NoElement
  /\ timers = <<>>
  /\ \A n \in DOMAIN doc : IsElement(n) => doc[n].outline = ""

----------------------------------------------------------------------------
(* C11 *)

\* highlighting id succeeds: a finding has the id and its cssPath selects an
\* element
C11_Succeeds(id) ==
  \E k \in 1..Len(findings) :
    /\ FindFinding(id) = k
    /\ querySelector(findings[k].cssPath) \notin {NoElement, SyntaxError}

\* each successful highlight schedules exactly one restoration, and a pending
\* restoration leaves the queue only by firing
C11_OneTimerPerHighlight ==
  [][/\ \A id \in 0..Len(findings) :
          (HighlightFinding(id) /\ C11_Succeeds(id)) =>
            Len(timers') = Len(timers) + 1
     /\ Len(timers') < Len(timers) => TimerFires]_vars

\* no restoration is pending and every element has the inline outline it had
\* before it was first highlighted (the empty one: the pages set none, and
\* only the highlighter and its timers write it)
C11_OutlinesRestored ==
  timers = <<>> => \A n \in DOMAIN doc : IsElement(n) => doc[n].outline = ""

\* C11: the highlight is transient. Each successful highlightElementById call
\* schedules exactly one restoration timer that is never cancelled, and for
\* any sequence of highlight requests (a second highlight of an element before
\* its first timer has fired included), once every scheduled timer has fired
\* each element's outline is the one it had before it was first highlighted:
\* no element stays outlined in red.
C11_HighlightIsTransient ==
  C11_OneTimerPerHighlight /\ []C11_OutlinesRestored

====
